---- MODULE Spec2Model ----
(***************************************************************************)
(* Model of two utilities of ckeditor5-dev:                                *)
(*   - getMissingDocletsData (jsdoc-plugins, relation-fixer): the doclet   *)
(*     inheritance resolver, a pure function over a doclet store;          *)
(*   - releaseSubRepositories (ckeditor5-dev-env, release-tools): the      *)
(*     promise chain that publishes packages, pushes and creates the       *)
(*     GitHub release.                                                     *)
(* Specification Spec runs the resolver on every bounded input; the        *)
(* specification SpecRelease runs the release chain.                       *)
(***************************************************************************)
EXTENDS Integers, Sequences, FiniteSets, TLC

VARIABLES
    heap,                        \* object id -> doclet; ids 1..nStore are the store (getAll() order)
    nStore,                      \* number of doclets in the docletCollection
    options,                     \* [relation, filter, onlyImplicitlyInherited]
    docletsToAdd,                \* ids of the candidates (line 26)
    idx,                         \* position of the for-of loop of line 29 (1-based)
    newDoclets,                  \* ids, in push order
    docletsWhichShouldBeIgnored, \* ids, in push order
    pc,                          \* "idle" | "start" | "loop" | "done" | "threw"
    log                          \* per finished iteration: the candidate, its branch and what it pushed

docVars == <<heap, nStore, options, docletsToAdd, idx, newDoclets,
             docletsWhichShouldBeIgnored, pc, log>>

\* releaseSubRepositories( options )
VARIABLES
    rpc,                 \* the link of the promise chain that runs next; "idle", "resolved"
    dryRun,              \* Boolean( options.dryRun )
    matched,             \* pathsCollection.matched: the package paths, options.cwd first
    emptyReleases,       \* options.emptyReleases: names of the packages released empty
    loggedIn,            \* the user is logged in to npm: `npm whoami` does not throw
    releaseOptions,      \* the user's answers [npm, github], once saved
    packages,            \* package -> release details (versions, shouldRelease...)
    releasesOnNpm,       \* Set of paths, in insertion order
    releasesOnGithub,    \* Set of paths
    emptyReleasesOnNpm,  \* Map temporary directory -> path, in insertion order
    releasedPackages,    \* Set of paths
    filesToRemove,       \* Set of archives `npm pack` made
    queue,               \* paths the running executeOnPackages() still has to visit
    err,                 \* the rejection travelling to the catch handler
    confirmed,           \* cli.confirmPublishing() resolved with true
    executed,            \* the publishing commands run, and the logs that stand for
                         \* them in a dry run, in order
    processCwd,          \* process.cwd()
    exitCode             \* process.exitCode

relVars == <<rpc, dryRun, matched, emptyReleases, loggedIn, releaseOptions, packages, releasesOnNpm,
             releasesOnGithub, emptyReleasesOnNpm, releasedPackages, filesToRemove, queue,
             err, confirmed, executed, processCwd, exitCode>>

vars == <<docVars, relVars>>

(***************************************************************************)
(* Strings are sequences of one-character strings.                         *)
(***************************************************************************)
Max(a, b) == IF a >= b THEN a ELSE b
Min(a, b) == IF a <= b THEN a ELSE b

\* String.prototype.lastIndexOf for a one-character needle: 0-based, -1 when absent.
lastIndexOf(s, ch) ==
    LET hits == {k \in 1..Len(s) : s[k] = ch}
    IN  IF hits = {} THEN -1 ELSE (CHOOSE k \in hits : \A j \in hits : j <= k) - 1

\* slice with a negative start read as 0
sliceFromStart(s, start) == SubSeq(s, Min(Max(start, 0), Len(s)) + 1, Len(s))

\* String.prototype.slice( start ): a negative start counts from the end.
slice(s, start) ==
    LET from == IF start < 0 THEN Max(Len(s) + start, 0) ELSE Min(start, Len(s))
    IN  SubSeq(s, from + 1, Len(s))

\* Array.prototype.indexOf( x ) !== -1
includes(arr, x) == \E k \in 1..Len(arr) : arr[k] = x

\* JavaScript values of the optional string fields: undefined, or a string.
Undefined == [type |-> "undefined", value |-> <<>>]
Str(s) == [type |-> "string", value |-> s]

(***************************************************************************)
(* Doclets.  A flag that is absent and a flag that is false read the same  *)
(* everywhere in the code (truthiness tests), so both are FALSE; a missing *)
(* array and an empty one read the same (isNonEmptyArray, `|| []`).  The   *)
(* field `null` is the property named "null" that line 58 creates when the *)
(* relation property is null.                                              *)
(***************************************************************************)
Relations == {"augmentsNested", "mixesNested", "implementsNested"}

Doclet(longname, memberof, name, kind, scope) ==
    [longname |-> longname, memberof |-> memberof, name |-> name, kind |-> kind,
     scope |-> scope, ignore |-> FALSE, undocumented |-> FALSE,
     inheritdoc |-> Undefined, overrides |-> Undefined,
     inherited |-> FALSE, mixed |-> FALSE, null |-> FALSE,
     descendants |-> <<>>, augmentsNested |-> <<>>, mixesNested |-> <<>>,
     implementsNested |-> <<>>]

\* Longnames of the entities: the target, its ancestor, a mixin and a class that may
\* link the ancestor to the target, and a longname no doclet of the store has.
TLong == <<"T">>
ALong == <<"A">>
MLong == <<"M">>
CLong == <<"C">>
XLong == <<"X">>
BLong == <<"B">>

NameM == <<"m">>

ScopeOf(sep) == IF sep = "." THEN "static" ELSE IF sep = "#" THEN "instance" ELSE "inner"

\* A member doclet `<owner><sep><name>`.
Member(owner, sep, kind) ==
    Doclet(owner \o <<sep>> \o NameM, owner, NameM, kind, ScopeOf(sep))

(***************************************************************************)
(* Inputs.  The members declared by the ancestor A (MemberPool) and the    *)
(* doclets declared directly under the target T (SiblingPool).             *)
(***************************************************************************)
MemberPool ==
    LET inst == Member(ALong, "#", "function")
    IN  << inst,
           Member(ALong, ".", "function"),
           Member(ALong, "~", "function"),      \* longname with neither `.` nor `#`
           [inst EXCEPT !.ignore = TRUE],
           [inst EXCEPT !.undocumented = TRUE],
           [inst EXCEPT !.inheritdoc = Str(<<>>)],
           [inst EXCEPT !.inheritdoc = Str(<<"B", "#", "m">>)],
           [inst EXCEPT !.mixed = TRUE],
           [inst EXCEPT !.inherited = TRUE] >>

SiblingPool ==
    LET inst == Member(TLong, "#", "function")
    IN  { inst,
          [inst EXCEPT !.inheritdoc = Str(<<>>)],
          [Member(TLong, ".", "function") EXCEPT !.overrides = Str(<<"A", ".", "m">>)],
          Member(TLong, "#", "member") }

MaxCandidates == 1
MaxSiblings == 2

RECURSIVE Ascending(_)
Ascending(I) ==
    IF I = {} THEN <<>>
    ELSE LET m == CHOOSE x \in I : \A y \in I : x <= y
         IN  <<m>> \o Ascending(I \ {m})

\* The ancestor declares at most n of the members of the pool, in the pool's order.
Declared(pool, n) ==
    { [k \in 1..Cardinality(I) |-> pool[Ascending(I)[k]]] :
        I \in {J \in SUBSET (1..Len(pool)) : Cardinality(J) <= n} }

\* The target declares at most n doclets of the pool, in any order, repeated or not
\* (JSDoc emits one doclet per chain a member is reached through).
SeqsUpTo(S, n) == UNION {[1..k -> S] : k \in 0..n}

\* The relation graph around the ancestor: whether A has a doclet of its own, its
\* `descendants`, and the `descendants` of the mixin M and of the class C.
Graph(aInStore, aDesc, mDesc, cDesc) ==
    [aInStore |-> aInStore, aDesc |-> aDesc, mDesc |-> mDesc, cDesc |-> cDesc]

Graphs(relation) ==
    IF relation # "implementsNested"
    THEN { Graph(FALSE, <<>>, <<>>, <<>>),
           Graph(TRUE, <<CLong, MLong>>, <<TLong>>, <<TLong>>) }
    ELSE
    { Graph(FALSE, <<>>, <<>>, <<>>),
      Graph(TRUE, <<>>, <<TLong>>, <<TLong>>),
      Graph(TRUE, <<CLong>>, <<>>, <<TLong>>),
      Graph(TRUE, <<CLong, MLong>>, <<TLong>>, <<TLong>>),
      Graph(TRUE, <<MLong, CLong>>, <<TLong>>, <<TLong>>),
      Graph(TRUE, <<XLong, MLong>>, <<>>, <<TLong>>) }

Filters == { {}, {<<"scope", "static">>} }

\* The store: the entity doclets, a member of B (an entity the target is not related
\* to), then the ancestor's members, then the target's own.  The target lists A as its
\* only ancestor, under the relation the call is made for.
Store(relation, g, cands, sibs) ==
    <<[Doclet(TLong, <<>>, TLong, "class", "global") EXCEPT ![relation] = <<ALong>>]>>
    \o (IF g.aInStore
         THEN <<[Doclet(ALong, <<>>, ALong, "interface", "global")
                    EXCEPT !.descendants = g.aDesc]>>
         ELSE <<>>)
    \o <<[Doclet(MLong, <<>>, MLong, "mixin", "global") EXCEPT !.descendants = g.mDesc],
          [Doclet(CLong, <<>>, CLong, "class", "global") EXCEPT !.descendants = g.cDesc]>>
    \o <<Member(BLong, "#", "function")>>
    \o cands \o sibs

\* interfaceClassOrMixinDoclet: the target is the first doclet of the store.
target == 1

(***************************************************************************)
(* The doclet store (DocletCollection) and lodash's cloneDeep.             *)
(***************************************************************************)
Ids(n) == [k \in 1..n |-> k]

\* docletCollection.get( `memberof:${ longname }` ): the stored doclets of that
\* memberof, in store order; an unknown key gives the empty list.
getByMemberOf(h, n, longname) ==
    SelectSeq(Ids(n), LAMBDA i : h[i].memberof = longname)

\* no copy: the "clone" is the doclet itself
cloneDeepAliased(h, id) == [heap |-> h, ref |-> id]

\* cloneDeep( doclet ): a new object with equal fields.
cloneDeep(h, id) == [heap |-> Append(h, h[id]), ref |-> Len(h) + 1]

\* createDocletMap( doclets )[ longname ]: the first stored doclet of that longname,
\* 0 for undefined.
createDocletMap(h, n, longname) ==
    LET hits == {i \in 1..n : h[i].longname = longname}
    IN  IF hits = {} THEN 0 ELSE CHOOSE i \in hits : \A j \in hits : i <= j

(***************************************************************************)
(* The functions of getmissingdocletsdata.js.                              *)
(***************************************************************************)
\* the `undocumented` test left out
shouldDocletBeAddedUndocumented(doclet, filter) ==
    /\ ~(doclet.ignore \/ doclet.inheritdoc.type = "string")
    /\ \A kv \in filter : doclet[kv[1]] = kv[2]

shouldDocletBeAdded(doclet, filter) ==
    /\ ~(doclet.ignore \/ doclet.undocumented \/ doclet.inheritdoc.type = "string")
    /\ \A kv \in filter : doclet[kv[1]] = kv[2]

RECURSIVE getDocletsToAddFrom(_, _, _, _)
getDocletsToAddFrom(h, n, ancestors, filter) ==
    IF ancestors = <<>> THEN <<>>
    ELSE LET front == SubSeq(ancestors, 1, Len(ancestors) - 1)
             longname == ancestors[Len(ancestors)]
         IN  getDocletsToAddFrom(h, n, front, filter)
             \o SelectSeq(getByMemberOf(h, n, longname),
                          LAMBDA i : shouldDocletBeAdded(h[i], filter))

getDocletsToAdd(h, n, childDoclet, opts) ==
    getDocletsToAddFrom(h, n, childDoclet[opts.relation], opts.filter)

isNonEmptyArray(obj) == Len(obj) > 0

\* only `#` looked for
getLongnameHashOnly(parentDoclet, childDoclet) ==
    childDoclet.longname
        \o slice(parentDoclet.longname, lastIndexOf(parentDoclet.longname, "#"))

getLongnameForNewDoclet(parentDoclet, childDoclet) ==
    LET dotIndex == lastIndexOf(parentDoclet.longname, ".")
        hashIndex == lastIndexOf(parentDoclet.longname, "#")
        name == slice(parentDoclet.longname, Max(dotIndex, hashIndex))
    IN  childDoclet.longname \o name

\* lines 157-158 and 162-163: the descendants of the doclet contain the longname
hasDescendant(doclet, longname) ==
    isNonEmptyArray(doclet.descendants) /\ includes(doclet.descendants, longname)

\* lines 156-166, the body of the loop for the map's entry `doclet` (0: undefined):
\* isInherited and isMixed after it
visitDoclet(h, doclet, childDoclet, flags) ==
    IF doclet = 0 THEN flags
    ELSE IF h[doclet].kind = "mixin"
    THEN [flags EXCEPT !.isMixed = @ \/ hasDescendant(h[doclet], childDoclet.longname)]
    ELSE IF h[doclet].kind = "class"
    THEN [flags EXCEPT !.isInherited = @ \/ hasDescendant(h[doclet], childDoclet.longname)]
    ELSE flags

\* the loop stopped at the first descendant that links the target
RECURSIVE scanDescendantsFirstMatch(_, _, _, _, _)
scanDescendantsFirstMatch(h, n, descendants, childDoclet, flags) ==
    IF descendants = <<>> \/ flags.isMixed \/ flags.isInherited THEN flags
    ELSE scanDescendantsFirstMatch(
             h, n, Tail(descendants), childDoclet,
             visitDoclet(h, createDocletMap(h, n, Head(descendants)), childDoclet, flags))

\* the loop of lines 153-167 over the descendants still to visit: isInherited and
\* isMixed after it
RECURSIVE scanDescendants(_, _, _, _, _)
scanDescendants(h, n, descendants, childDoclet, flags) ==
    IF descendants = <<>> THEN flags
    ELSE scanDescendants(
             h, n, Tail(descendants), childDoclet,
             visitDoclet(h, createDocletMap(h, n, Head(descendants)), childDoclet, flags))

\* lines 170-176
relationOf(flags) ==
    IF flags.isMixed THEN "mixed"
    ELSE IF flags.isInherited THEN "inherited"
    ELSE "null"

\* lines 146-168 for the map's entry `memberDocletParent` (0: undefined): "TypeError"
\* when line 152 reads `descendants` of undefined
relationFromParent(h, n, childDoclet, memberDocletParent) ==
    IF memberDocletParent = 0 THEN "TypeError"
    ELSE relationOf(scanDescendants(h, n, h[memberDocletParent].descendants, childDoclet,
                                    [isInherited |-> FALSE, isMixed |-> FALSE]))

\* lines 146-176: "inherited", "mixed" or "null" from the descendants of the doclet
\* at memberDoclet.memberof
relationFromDescendants(h, n, childDoclet, memberDoclet) ==
    relationFromParent(h, n, childDoclet, createDocletMap(h, n, memberDoclet.memberof))

\* the two early returns of lines 138-144 left out
getRelationPropertyNoShortcut(h, n, childDoclet, memberDoclet, relation) ==
    relationFromDescendants(h, n, childDoclet, memberDoclet)

getRelationProperty(h, n, childDoclet, memberDoclet, relation) ==
    IF relation = "augmentsNested" THEN "inherited"
    ELSE IF relation = "mixesNested" THEN "mixed"
    ELSE relationFromDescendants(h, n, childDoclet, memberDoclet)

\* the kind left out of the comparison
isSameMemberByName(d, clonedDoclet) == d.name = clonedDoclet.name

\* the filter of lines 42-44
isSameMember(d, clonedDoclet) ==
    d.name = clonedDoclet.name /\ d.kind = clonedDoclet.kind

\* every chain taken for explicit
doAllParentsAlways(h, doclets) == TRUE

\* `overrides` not looked at
doAllParentsInheritdoc(h, doclets) ==
    \A k \in 1..Len(doclets) : h[doclets[k]].inheritdoc # Undefined

doAllParentsExplicitlyInherit(h, doclets) ==
    \A k \in 1..Len(doclets) :
        ~(h[doclets[k]].inheritdoc = Undefined /\ h[doclets[k]].overrides = Undefined)

\* both relation flags set, whatever the property
SetTrueBoth(h, id, property) == [h EXCEPT ![id].inherited = TRUE, ![id].mixed = TRUE]

\* doclet[ property ] = true
SetTrue(h, id, property) == [h EXCEPT ![id][property] = TRUE]

(***************************************************************************)
(* One iteration of the loop of lines 29-63 up to the branch of line 46:   *)
(* the heap after lines 30-40, the clone, the relation property and the    *)
(* siblings of lines 42-44.                                                *)
(***************************************************************************)
Iteration(h, n, opts, docletToAdd) ==
    LET c == cloneDeep(h, docletToAdd)
        clonedDoclet == c.ref
        \* lines 32-33
        named == [c.heap EXCEPT
                    ![clonedDoclet].longname =
                        getLongnameForNewDoclet(c.heap[docletToAdd], c.heap[target]),
                    ![clonedDoclet].memberof = c.heap[target].longname]
        \* line 36
        relationProperty ==
            getRelationProperty(named, n, named[target], named[docletToAdd], opts.relation)
        \* lines 38-40
        tagged == IF relationProperty \in {"null", "TypeError"}
                  THEN named
                  ELSE SetTrue(named, clonedDoclet, relationProperty)
        \* lines 42-44
        docletsOfSameMember ==
            SelectSeq(getByMemberOf(tagged, n, tagged[clonedDoclet].memberof),
                      LAMBDA d : isSameMember(tagged[d], tagged[clonedDoclet]))
    IN  [clonedDoclet |-> clonedDoclet, relationProperty |-> relationProperty,
         heap |-> tagged, docletsOfSameMember |-> docletsOfSameMember]

Iterating == pc = "loop" /\ idx <= Len(docletsToAdd)

Current == Iteration(heap, nStore, options, docletsToAdd[idx])

Logged(branch, emitted, ignored) ==
    Append(log, [cand |-> docletsToAdd[idx], branch |-> branch, emitted |-> emitted,
                 ignored |-> ignored])

(***************************************************************************)
(* Actions of the resolver.                                                *)
(***************************************************************************)
\* lines 23-27
Call ==
    /\ UNCHANGED relVars
    /\ pc = "start"
    /\ docletsToAdd' = getDocletsToAdd(heap, nStore, heap[target], options)
    /\ idx' = 1
    /\ pc' = "loop"
    /\ UNCHANGED <<heap, nStore, options, newDoclets, docletsWhichShouldBeIgnored, log>>

\* line 152 on an undefined memberDocletParent: the call ends with a TypeError.
IterThrows ==
    /\ UNCHANGED relVars
    /\ Iterating
    /\ LET it == Current
       IN  /\ it.relationProperty = "TypeError"
           /\ heap' = it.heap
    /\ pc' = "threw"
    /\ UNCHANGED <<nStore, options, docletsToAdd, idx, newDoclets,
                   docletsWhichShouldBeIgnored, log>>

\* lines 46-48
IterNoSibling ==
    /\ UNCHANGED relVars
    /\ Iterating
    /\ LET it == Current
       IN  /\ it.relationProperty # "TypeError"
           /\ Len(it.docletsOfSameMember) = 0
           /\ heap' = it.heap
           /\ newDoclets' = Append(newDoclets, it.clonedDoclet)
           /\ log' = Logged("noSibling", it.clonedDoclet, <<>>)
    /\ idx' = idx + 1
    /\ UNCHANGED <<nStore, options, docletsToAdd, docletsWhichShouldBeIgnored, pc>>

\* lines 49-54
IterAllExplicit ==
    /\ UNCHANGED relVars
    /\ Iterating
    /\ ~options.onlyImplicitlyInherited
    /\ LET it == Current
       IN  /\ it.relationProperty # "TypeError"
           /\ Len(it.docletsOfSameMember) # 0
           /\ doAllParentsExplicitlyInherit(it.heap, it.docletsOfSameMember)
           /\ heap' = it.heap
           /\ docletsWhichShouldBeIgnored' =
                  docletsWhichShouldBeIgnored \o it.docletsOfSameMember
           /\ newDoclets' = Append(newDoclets, it.clonedDoclet)
           /\ log' = Logged("allExplicit", it.clonedDoclet, it.docletsOfSameMember)
    /\ idx' = idx + 1
    /\ UNCHANGED <<nStore, options, docletsToAdd, pc>>

\* lines 55-62
IterTwoOrMore ==
    /\ UNCHANGED relVars
    /\ Iterating
    /\ LET it == Current
           c == cloneDeep(it.heap, it.docletsOfSameMember[1])
           correctDoclet == c.ref
       IN  /\ it.relationProperty # "TypeError"
           /\ Len(it.docletsOfSameMember) >= 2
           /\ ~(doAllParentsExplicitlyInherit(it.heap, it.docletsOfSameMember)
                 /\ ~options.onlyImplicitlyInherited)
           /\ heap' = SetTrue(c.heap, correctDoclet, it.relationProperty)
           /\ newDoclets' = Append(newDoclets, correctDoclet)
           /\ docletsWhichShouldBeIgnored' =
                  docletsWhichShouldBeIgnored \o it.docletsOfSameMember
           /\ log' = Logged("twoOrMore", correctDoclet, it.docletsOfSameMember)
    /\ idx' = idx + 1
    /\ UNCHANGED <<nStore, options, docletsToAdd, pc>>

\* no branch of lines 46-62 applies: a single sibling that is not explicit, or that
\* is explicit while onlyImplicitlyInherited is set
IterSingleSibling ==
    /\ UNCHANGED relVars
    /\ Iterating
    /\ LET it == Current
       IN  /\ it.relationProperty # "TypeError"
           /\ Len(it.docletsOfSameMember) = 1
           /\ ~(doAllParentsExplicitlyInherit(it.heap, it.docletsOfSameMember)
                 /\ ~options.onlyImplicitlyInherited)
           /\ heap' = it.heap
    /\ idx' = idx + 1
    /\ log' = Logged("singleSibling", 0, <<>>)
    /\ UNCHANGED <<nStore, options, docletsToAdd, newDoclets,
                   docletsWhichShouldBeIgnored, pc>>

\* lines 65-68
Return ==
    /\ UNCHANGED relVars
    /\ pc = "loop"
    /\ idx > Len(docletsToAdd)
    /\ pc' = "done"
    /\ UNCHANGED <<heap, nStore, options, docletsToAdd, idx, newDoclets,
                   docletsWhichShouldBeIgnored, log>>

DocInit ==
    \E relation \in Relations, filter \in Filters, onlyImplicitlyInherited \in BOOLEAN,
       cands \in Declared(MemberPool, MaxCandidates),
       sibs \in SeqsUpTo(SiblingPool, MaxSiblings) :
      \E g \in Graphs(relation) :
        /\ heap = Store(relation, g, cands, sibs)
        /\ nStore = Len(heap)
        /\ options = [relation |-> relation, filter |-> filter,
                      onlyImplicitlyInherited |-> onlyImplicitlyInherited]
        /\ docletsToAdd = <<>>
        /\ idx = 0
        /\ newDoclets = <<>>
        /\ docletsWhichShouldBeIgnored = <<>>
        /\ pc = "start"
        /\ log = <<>>

(***************************************************************************)
(* releaseSubRepositories.  Paths are records: the directory of package p, *)
(* or the temporary directory made inside it for an empty release.         *)
(***************************************************************************)
MaxPackages == 2

\* options.cwd, the main repository, is the first package.
MainRepository == 1

PackagePath(p) == [repo |-> p, tmp |-> FALSE]
TmpDir(p) == [repo |-> p, tmp |-> TRUE]

\* process.cwd() when the task starts
StartCwd == [repo |-> 0, tmp |-> FALSE]

Null == [type |-> "null", value |-> <<>>]

BREAK_RELEASE_MESSAGE == "You aborted publishing the release. Why? Oh why?!"
NO_RELEASE_MESSAGE == "No changes for publishing. Why? Oh why?!"
AUTH_REQUIRED == "You must be logged to execute this command."
\* the message of any other error (a command that failed)
OtherError == "command failed"

\* the version in every package.json, and what `npm show <name> version` and the
\* latest GitHub release may answer
PackageJsonVersion == Str(<<"2">>)
NpmVersions == {Null, Str(<<"1">>), Str(<<"2">>)}
TagNames == {Null, Str(<<"v", "1">>), Str(<<"v", "2">>)}

\* getLatestRelease() failed with something else than 404
RequestError == [type |-> "error", value |-> <<>>]

\* data.tag_name.replace( /^v/, '' ) when tag_name is truthy
githubVersionOf(tagName) ==
    IF tagName.type = "string" /\ tagName.value # <<>> /\ Head(tagName.value) = "v"
    THEN Str(Tail(tagName.value))
    ELSE tagName

\* a chain that pushes before it publishes
PromiseChainPushFirst ==
    << "configureRelease", "saveReleaseOptions", "authCheck", "preparePackagesToRelease",
       "filterPackagesToReleaseOnNpm", "filterPackagesToReleaseOnGitHub", "confirmRelease",
       "prepareDirectoriesForEmptyReleases", "pushPackages", "releasePackagesOnNpm",
       "createReleasesOnGitHub", "removeTemporaryDirectories", "removeReleaseArchives",
       "finish" >>

\* a chain that asks for the confirmation after it has published on npm
PromiseChainConfirmLate ==
    << "configureRelease", "saveReleaseOptions", "authCheck", "preparePackagesToRelease",
       "filterPackagesToReleaseOnNpm", "filterPackagesToReleaseOnGitHub",
       "prepareDirectoriesForEmptyReleases", "releasePackagesOnNpm", "confirmRelease",
       "pushPackages", "createReleasesOnGitHub", "removeTemporaryDirectories",
       "removeReleaseArchives", "finish" >>

\* the then-chain of lines 132-150
PromiseChain ==
    << "configureRelease", "saveReleaseOptions", "authCheck", "preparePackagesToRelease",
       "filterPackagesToReleaseOnNpm", "filterPackagesToReleaseOnGitHub", "confirmRelease",
       "prepareDirectoriesForEmptyReleases", "releasePackagesOnNpm", "pushPackages",
       "createReleasesOnGitHub", "removeTemporaryDirectories", "removeReleaseArchives",
       "finish" >>

\* the link that runs when `step` has resolved
Then(step) ==
    LET i == CHOOSE k \in 1..Len(PromiseChain) : PromiseChain[k] = step
    IN  IF i = Len(PromiseChain) THEN "resolved" ELSE PromiseChain[i + 1]

\* executeOnPackages( paths, callback ): the callback runs once per path, in order,
\* and the returned promise resolves after the last one.
executeOnPackages(paths) == paths

\* the paths of a Set or Map of the task, as a set
Range(f) == {f[k] : k \in DOMAIN f}

\* the packages a list of paths names
Repos(paths) == {paths[k].repo : k \in 1..Len(paths)}

relInputs == <<dryRun, matched, emptyReleases, loggedIn>>

Resolve(step) == rpc' = Then(step) /\ err' = err
Reject(message) == rpc' = "catch" /\ err' = message

\* lines 184-188
configureRelease ==
    /\ rpc = "configureRelease"
    /\ Resolve("configureRelease")
    /\ UNCHANGED <<docVars, relInputs, releaseOptions, packages, releasesOnNpm,
                   releasesOnGithub, emptyReleasesOnNpm, releasedPackages, filesToRemove,
                   queue, confirmed, executed, processCwd, exitCode>>

\* lines 193-207, on the answers cli.configureReleaseOptions() resolved with
saveReleaseOptions ==
    /\ rpc = "saveReleaseOptions"
    /\ \E npm \in BOOLEAN, github \in BOOLEAN :
          /\ releaseOptions' = [npm |-> npm, github |-> github]
          /\ IF ~npm /\ ~github
             THEN Reject(BREAK_RELEASE_MESSAGE)
             ELSE Resolve("saveReleaseOptions")
    /\ UNCHANGED <<docVars, relInputs, packages, releasesOnNpm, releasesOnGithub,
                   emptyReleasesOnNpm, releasedPackages, filesToRemove, queue, confirmed,
                   executed, processCwd, exitCode>>

\* lines 212-235
authCheck ==
    /\ rpc = "authCheck"
    /\ IF ~releaseOptions.npm
       THEN Resolve("authCheck")
       ELSE IF loggedIn \/ dryRun
            THEN Resolve("authCheck")
            ELSE Reject(AUTH_REQUIRED)
    /\ UNCHANGED <<docVars, relInputs, releaseOptions, packages, releasesOnNpm,
                   releasesOnGithub, emptyReleasesOnNpm, releasedPackages, filesToRemove,
                   queue, confirmed, executed, processCwd, exitCode>>

\* lines 241-284; the main repository is set at line 264 whether it was matched or
\* not; ok: `git remote get-url origin --push` did not throw
preparePackagesToRelease ==
    /\ rpc = "preparePackagesToRelease"
    /\ \E ok \in IF releaseOptions.github THEN BOOLEAN ELSE {TRUE} :
          IF ok
          THEN /\ packages' =
                     [p \in {MainRepository} \cup Repos(matched) |->
                         [version |-> PackageJsonVersion,
                          npmVersion |-> Undefined, shouldReleaseOnNpm |-> FALSE,
                          githubVersion |-> Undefined, shouldReleaseOnGithub |-> FALSE]]
               /\ processCwd' = StartCwd
               /\ Resolve("preparePackagesToRelease")
          ELSE /\ Reject(OtherError)
               /\ UNCHANGED <<packages, processCwd>>
    /\ UNCHANGED <<docVars, relInputs, releaseOptions, releasesOnNpm, releasesOnGithub,
                   emptyReleasesOnNpm, releasedPackages, filesToRemove, queue, confirmed,
                   executed, exitCode>>

\* lines 290-342; `visited` packages were checked before `npm show` failed with
\* something else than E404 (all of them when it never failed)
filterPackagesToReleaseOnNpm ==
    /\ rpc = "filterPackagesToReleaseOnNpm"
    /\ IF ~releaseOptions.npm
       THEN /\ Resolve("filterPackagesToReleaseOnNpm")
            /\ UNCHANGED <<packages, releasesOnNpm, processCwd>>
       ELSE \E visited \in 0..Len(matched) :
            \E npmVersion \in [Repos(SubSeq(matched, 1, visited)) -> NpmVersions] :
               /\ packages' =
                     [p \in DOMAIN packages |->
                         IF p \in DOMAIN npmVersion
                         THEN [packages[p] EXCEPT
                                 !.npmVersion = npmVersion[p],
                                 !.shouldReleaseOnNpm = (npmVersion[p] # packages[p].version)]
                         ELSE packages[p]]
               /\ releasesOnNpm' =
                     SelectSeq(SubSeq(matched, 1, visited),
                               LAMBDA path : npmVersion[path.repo] # packages[path.repo].version)
               /\ processCwd' = IF Len(matched) = 0 THEN processCwd
                                ELSE matched[IF visited < Len(matched) THEN visited + 1
                                             ELSE visited]
               /\ IF visited < Len(matched)
                  THEN Reject(OtherError)
                  ELSE Resolve("filterPackagesToReleaseOnNpm")
    /\ UNCHANGED <<docVars, relInputs, releaseOptions, releasesOnGithub,
                   emptyReleasesOnNpm, releasedPackages, filesToRemove, queue, confirmed,
                   executed, exitCode>>

\* lines 348-411; line 386 catches a failed request
filterPackagesToReleaseOnGitHub ==
    /\ rpc = "filterPackagesToReleaseOnGitHub"
    /\ IF ~releaseOptions.github
       THEN UNCHANGED <<packages, releasesOnGithub, processCwd>>
       ELSE /\ processCwd' = PackagePath(MainRepository)
            /\ \E response \in TagNames \cup {RequestError} :
                  IF response = RequestError
                  THEN UNCHANGED <<packages, releasesOnGithub>>
                  ELSE LET githubVersion == githubVersionOf(response)
                           should == githubVersion # packages[MainRepository].version
                       IN  /\ packages' = [packages EXCEPT
                                 ![MainRepository].githubVersion = githubVersion,
                                 ![MainRepository].shouldReleaseOnGithub = should]
                           /\ releasesOnGithub' =
                                 IF should
                                 THEN releasesOnGithub \cup {PackagePath(MainRepository)}
                                 ELSE releasesOnGithub
    /\ Resolve("filterPackagesToReleaseOnGitHub")
    /\ UNCHANGED <<docVars, relInputs, releaseOptions, releasesOnNpm, emptyReleasesOnNpm,
                   releasedPackages, filesToRemove, queue, confirmed, executed, exitCode>>

\* lines 417-431
confirmRelease ==
    /\ rpc = "confirmRelease"
    /\ IF releasesOnNpm = <<>> /\ releasesOnGithub = {}
       THEN /\ Reject(NO_RELEASE_MESSAGE)
            /\ UNCHANGED confirmed
       ELSE \E isConfirmed \in BOOLEAN :
               /\ confirmed' = isConfirmed
               /\ IF isConfirmed
                  THEN Resolve("confirmRelease")
                  ELSE Reject(BREAK_RELEASE_MESSAGE)
    /\ UNCHANGED <<docVars, relInputs, releaseOptions, packages, releasesOnNpm,
                   releasesOnGithub, emptyReleasesOnNpm, releasedPackages, filesToRemove,
                   queue, executed, processCwd, exitCode>>

\* lines 436-496; `copied` temporary directories were filled before a `cp` threw
\* (all of them when none did)
prepareDirectoriesForEmptyReleases ==
    /\ rpc = "prepareDirectoriesForEmptyReleases"
    /\ IF ~releaseOptions.npm
       THEN /\ Resolve("prepareDirectoriesForEmptyReleases")
            /\ UNCHANGED <<releasesOnNpm, emptyReleasesOnNpm, executed, processCwd>>
       ELSE LET visit == executeOnPackages(releasesOnNpm)
                empty == SelectSeq(visit, LAMBDA path : path.repo \in emptyReleases)
            IN  \E copied \in 0..Len(empty) :
                LET failed == copied < Len(empty)
                    made == SubSeq(empty, 1, IF failed THEN copied + 1 ELSE copied)
                IN  /\ releasesOnNpm' =
                          SelectSeq(releasesOnNpm, LAMBDA path : path \notin Range(made))
                    /\ emptyReleasesOnNpm' =
                          [k \in 1..Len(made) |->
                              [tmpDir |-> TmpDir(made[k].repo), repositoryPath |-> made[k]]]
                    /\ executed' = executed \o
                          [k \in 1..Len(made) |-> [cmd |-> "mkdtemp", at |-> made[k]]]
                    /\ processCwd' = IF failed THEN made[Len(made)]
                                     ELSE IF visit = <<>> THEN processCwd
                                     ELSE visit[Len(visit)]
                    /\ IF failed
                       THEN Reject(OtherError)
                       ELSE Resolve("prepareDirectoriesForEmptyReleases")
    /\ UNCHANGED <<docVars, relInputs, releaseOptions, packages, releasesOnGithub,
                   releasedPackages, filesToRemove, queue, confirmed, exitCode>>

\* lines 501-513: the paths to publish from
releasePackagesOnNpm ==
    /\ rpc = "releasePackagesOnNpm"
    /\ IF ~releaseOptions.npm
       THEN Resolve("releasePackagesOnNpm") /\ UNCHANGED queue
       ELSE /\ queue' = executeOnPackages(
                   [k \in 1..Len(emptyReleasesOnNpm) |-> emptyReleasesOnNpm[k].tmpDir]
                   \o releasesOnNpm)
            /\ rpc' = "executeOnPackages"
            /\ err' = err
    /\ UNCHANGED <<docVars, relInputs, releaseOptions, packages, releasesOnNpm,
                   releasesOnGithub, emptyReleasesOnNpm, releasedPackages, filesToRemove,
                   confirmed, executed, processCwd, exitCode>>

\* a callback that publishes whatever the mode
publishCommandAlways == "npm publish"

\* lines 523-537: the command the callback runs
publishCommand == IF dryRun THEN "npm pack" ELSE "npm publish"

\* lines 513-540: the callback, for the next path; ok: the command did not throw
publishPackage ==
    /\ rpc = "executeOnPackages"
    /\ queue # <<>>
    /\ LET repositoryPath == Head(queue)
           repositoryRealPath == PackagePath(repositoryPath.repo)
       IN  /\ processCwd' = repositoryPath
           /\ executed' = Append(executed,
                 [cmd |-> publishCommand,
                  at |-> repositoryRealPath])
           /\ \E ok \in BOOLEAN :
                 IF ok
                 THEN /\ filesToRemove' = IF dryRun
                                          THEN filesToRemove \cup {repositoryRealPath}
                                          ELSE filesToRemove
                      /\ releasedPackages' = releasedPackages \cup {repositoryRealPath}
                      /\ queue' = Tail(queue)
                      /\ UNCHANGED <<rpc, err>>
                 ELSE /\ Reject(OtherError)
                      /\ UNCHANGED <<filesToRemove, releasedPackages, queue>>
    /\ UNCHANGED <<docVars, relInputs, releaseOptions, packages, releasesOnNpm,
                   releasesOnGithub, emptyReleasesOnNpm, confirmed, exitCode>>

\* the promise of executeOnPackages resolves: every path was visited
publishedAll ==
    /\ rpc = "executeOnPackages"
    /\ queue = <<>>
    /\ Resolve("releasePackagesOnNpm")
    /\ UNCHANGED <<docVars, relInputs, releaseOptions, packages, releasesOnNpm,
                   releasesOnGithub, emptyReleasesOnNpm, releasedPackages, filesToRemove,
                   queue, confirmed, executed, processCwd, exitCode>>

\* lines 547-564
pushPackages ==
    /\ rpc = "pushPackages"
    /\ processCwd' = PackagePath(MainRepository)
    /\ IF dryRun
       THEN /\ executed' = Append(executed,
                  [cmd |-> "logDryRun git push", at |-> PackagePath(MainRepository)])
            /\ Resolve("pushPackages")
       ELSE /\ executed' = Append(executed,
                  [cmd |-> "git push", at |-> PackagePath(MainRepository)])
            /\ \E ok \in BOOLEAN :
                  IF ok THEN Resolve("pushPackages") ELSE Reject(OtherError)
    /\ UNCHANGED <<docVars, relInputs, releaseOptions, packages, releasesOnNpm,
                   releasesOnGithub, emptyReleasesOnNpm, releasedPackages, filesToRemove,
                   queue, confirmed, exitCode>>

\* lines 569-615; a rejection of createGithubRelease() is logged and swallowed
createReleasesOnGitHub ==
    /\ rpc = "createReleasesOnGitHub"
    /\ IF ~releaseOptions.github
       THEN UNCHANGED <<executed, releasedPackages, processCwd>>
       ELSE /\ processCwd' = PackagePath(MainRepository)
            /\ IF dryRun
               THEN /\ executed' = Append(executed,
                          [cmd |-> "logDryRun release url", at |-> PackagePath(MainRepository)])
                    /\ UNCHANGED releasedPackages
               ELSE /\ executed' = Append(executed,
                          [cmd |-> "createGithubRelease", at |-> PackagePath(MainRepository)])
                    /\ \E ok \in BOOLEAN :
                          releasedPackages' =
                              IF ok
                              THEN releasedPackages \cup {PackagePath(MainRepository)}
                              ELSE releasedPackages
    /\ Resolve("createReleasesOnGitHub")
    /\ UNCHANGED <<docVars, relInputs, releaseOptions, packages, releasesOnNpm,
                   releasesOnGithub, emptyReleasesOnNpm, filesToRemove, queue, confirmed,
                   exitCode>>

\* lines 620-632; ok: no `rm -rf` threw, else the one in directory `removed` did
removeTemporaryDirectories ==
    /\ rpc = "removeTemporaryDirectories"
    /\ IF ~releaseOptions.npm \/ emptyReleasesOnNpm = <<>>
       THEN /\ Resolve("removeTemporaryDirectories")
            /\ UNCHANGED processCwd
       ELSE \E removed \in 1..Len(emptyReleasesOnNpm), ok \in BOOLEAN :
               /\ ok => removed = Len(emptyReleasesOnNpm)
               /\ processCwd' = emptyReleasesOnNpm[removed].repositoryPath
               /\ IF ok
                  THEN Resolve("removeTemporaryDirectories")
                  ELSE Reject(OtherError)
    /\ UNCHANGED <<docVars, relInputs, releaseOptions, packages, releasesOnNpm,
                   releasesOnGithub, emptyReleasesOnNpm, releasedPackages, filesToRemove,
                   queue, confirmed, executed, exitCode>>

\* lines 637-659; the archives are removed from the disk or left there, the Set
\* filesToRemove is not touched; ok: no `rm` threw
removeReleaseArchives ==
    /\ rpc = "removeReleaseArchives"
    /\ IF ~releaseOptions.npm \/ ~dryRun
       THEN /\ Resolve("removeReleaseArchives")
            /\ UNCHANGED processCwd
       ELSE \E shouldRemove \in BOOLEAN, ok \in BOOLEAN :
               /\ processCwd' = StartCwd
               /\ IF shouldRemove /\ filesToRemove # {} /\ ~ok
                  THEN Reject(OtherError)
                  ELSE Resolve("removeReleaseArchives")
    /\ UNCHANGED <<docVars, relInputs, releaseOptions, packages, releasesOnNpm,
                   releasesOnGithub, emptyReleasesOnNpm, releasedPackages, filesToRemove,
                   queue, confirmed, executed, exitCode>>

\* lines 145-150
finish ==
    /\ rpc = "finish"
    /\ processCwd' = StartCwd
    /\ Resolve("finish")
    /\ UNCHANGED <<docVars, relInputs, releaseOptions, packages, releasesOnNpm,
                   releasesOnGithub, emptyReleasesOnNpm, releasedPackages, filesToRemove,
                   queue, confirmed, executed, exitCode>>

\* lines 151-179
catchHandler ==
    /\ rpc = "catch"
    /\ processCwd' = StartCwd
    /\ exitCode' =
          IF err \in {BREAK_RELEASE_MESSAGE, NO_RELEASE_MESSAGE, AUTH_REQUIRED}
          THEN exitCode
          ELSE -1
    /\ rpc' = "resolved"
    /\ UNCHANGED <<docVars, relInputs, releaseOptions, packages, releasesOnNpm,
                   releasesOnGithub, emptyReleasesOnNpm, releasedPackages, filesToRemove,
                   queue, err, confirmed, executed>>

\* the state of the task when no release runs
RelState(step, dry, paths, empty) ==
    /\ rpc = step
    /\ dryRun = dry
    /\ matched = paths
    /\ emptyReleases = empty
    /\ releaseOptions = [npm |-> FALSE, github |-> FALSE]
    /\ packages = <<>>
    /\ releasesOnNpm = <<>>
    /\ releasesOnGithub = {}
    /\ emptyReleasesOnNpm = <<>>
    /\ releasedPackages = {}
    /\ filesToRemove = {}
    /\ queue = <<>>
    /\ err = ""
    /\ confirmed = FALSE
    /\ executed = <<>>
    /\ processCwd = StartCwd
    /\ exitCode = 0

\* lines 93-130: options.dryRun, the packages getSubPackagesPaths() matched (the main
\* repository unless options.skipMainRepository, and up to MaxPackages - 1
\* sub-packages) and options.emptyReleases
RelInit ==
    \E dry \in BOOLEAN, n \in 1..MaxPackages, skipMainRepository \in BOOLEAN :
    \E empty \in SUBSET (1..n) :
        /\ RelState("configureRelease", dry,
                    SelectSeq([p \in 1..n |-> PackagePath(p)],
                              LAMBDA path : ~(skipMainRepository /\ path.repo = MainRepository)),
                    empty)
        /\ loggedIn \in BOOLEAN

\* the resolver is not running
DocIdle ==
    /\ heap = <<>>
    /\ nStore = 0
    /\ options = [relation |-> "augmentsNested", filter |-> {},
                  onlyImplicitlyInherited |-> FALSE]
    /\ docletsToAdd = <<>>
    /\ idx = 0
    /\ newDoclets = <<>>
    /\ docletsWhichShouldBeIgnored = <<>>
    /\ pc = "idle"
    /\ log = <<>>

Init == DocInit /\ RelState("idle", FALSE, <<>>, {}) /\ loggedIn = FALSE

Next ==
    \/ Call
    \/ IterThrows
    \/ IterNoSibling
    \/ IterAllExplicit
    \/ IterTwoOrMore
    \/ IterSingleSibling
    \/ Return

Spec == Init /\ [][Next]_vars

InitRelease == RelInit /\ DocIdle

NextRelease ==
    \/ configureRelease
    \/ saveReleaseOptions
    \/ authCheck
    \/ preparePackagesToRelease
    \/ filterPackagesToReleaseOnNpm
    \/ filterPackagesToReleaseOnGitHub
    \/ confirmRelease
    \/ prepareDirectoriesForEmptyReleases
    \/ releasePackagesOnNpm
    \/ publishPackage
    \/ publishedAll
    \/ pushPackages
    \/ createReleasesOnGitHub
    \/ removeTemporaryDirectories
    \/ removeReleaseArchives
    \/ finish
    \/ catchHandler

SpecRelease == InitRelease /\ [][NextRelease]_vars

(***************************************************************************)
(* Vocabulary of the properties of the resolver.  They read the store      *)
(* directly: stored doclets have the ids 1..nStore.                        *)
(***************************************************************************)
InSeq(s, x) == \E k \in 1..Len(s) : s[k] = x

TargetLongname == heap[target].longname

\* the ancestors listed in target[ options.relation ]
Ancestors == heap[target][options.relation]

\* the doclets declared directly under the target with the name and kind of doclet c
SiblingsOf(c) ==
    SelectSeq(Ids(nStore), LAMBDA i : /\ heap[i].memberof = TargetLongname
                                      /\ heap[i].name = heap[c].name
                                      /\ heap[i].kind = heap[c].kind)

\* the doclet carries an `inheritdoc` or an `overrides` marker
Explicit(i) == heap[i].inheritdoc.type = "string" \/ heap[i].overrides.type = "string"

AllExplicitCase(c) ==
    /\ SiblingsOf(c) # <<>>
    /\ \A k \in 1..Len(SiblingsOf(c)) : Explicit(SiblingsOf(c)[k])
    /\ ~options.onlyImplicitlyInherited

TwoOrMoreCase(c) == Len(SiblingsOf(c)) >= 2 /\ ~AllExplicitCase(c)

\* the doclet an emitted doclet is a copy of
ClonedFrom(e) == IF TwoOrMoreCase(e.cand) THEN SiblingsOf(e.cand)[1] ELSE e.cand

RelationFlags(d) == {f \in {"inherited", "mixed"} : d[f]}

\* equal in every field but the two relation flags
SameButRelationFlags(d1, d2) ==
    [d1 EXCEPT !.inherited = FALSE, !.mixed = FALSE]
        = [d2 EXCEPT !.inherited = FALSE, !.mixed = FALSE]

RECURSIVE EmittedBy(_)
EmittedBy(l) ==
    IF l = <<>> THEN <<>>
    ELSE EmittedBy(SubSeq(l, 1, Len(l) - 1))
         \o (IF l[Len(l)].emitted = 0 THEN <<>> ELSE <<l[Len(l)].emitted>>)

RECURSIVE IgnoredBy(_)
IgnoredBy(l) ==
    IF l = <<>> THEN <<>>
    ELSE IgnoredBy(SubSeq(l, 1, Len(l) - 1)) \o l[Len(l)].ignored

\* the two result lists hold what the finished iterations pushed, in order, and the
\* k-th finished iteration was that of the k-th candidate
LogAccounts ==
    /\ newDoclets = EmittedBy(log)
    /\ docletsWhichShouldBeIgnored = IgnoredBy(log)
    /\ Len(log) <= Len(docletsToAdd)
    /\ \A k \in 1..Len(log) : log[k].cand = docletsToAdd[k]
    /\ pc = "done" => Len(log) = Len(docletsToAdd)

(***************************************************************************)
(* C1, as stated: every doclet of newDoclets has exactly one of            *)
(* `inherited` and `mixed` set to true.  Refuted: an IMPLEMENTS candidate  *)
(* without a linking mixin or class gets neither, and a copy of a doclet   *)
(* that already carries the other flag has both.                           *)
(***************************************************************************)
C1_ExactlyOneRelationFlag ==
    \A k \in 1..Len(newDoclets) : Cardinality(RelationFlags(heap[newDoclets[k]])) = 1

(***************************************************************************)
(* C1, amended: every doclet of newDoclets keeps the relation flags of the *)
(* doclet it is a copy of (the candidate, or the first sibling in the      *)
(* two-or-more branch) and the call adds at most one flag to them:         *)
(* `inherited` is true under EXTENDS, `mixed` is true under MIXES, and     *)
(* under EXTENDS and MIXES exactly one of the two is true when the copied  *)
(* doclet carried none.                                                    *)
(***************************************************************************)
C1_AtMostOneRelationFlagAdded ==
    /\ LogAccounts
    /\ \A k \in 1..Len(log) :
          log[k].emitted # 0 =>
            LET before == RelationFlags(heap[ClonedFrom(log[k])])
                after == RelationFlags(heap[log[k].emitted])
            IN  /\ before \subseteq after
                /\ Cardinality(after \ before) <= 1
                /\ options.relation = "augmentsNested" => "inherited" \in after
                /\ options.relation = "mixesNested" => "mixed" \in after
                /\ (before = {} /\ options.relation # "implementsNested")
                      => Cardinality(after) = 1

\* a returned doclet with both flags: the candidate was already `mixed` and the call
\* added `inherited`
C1_Witness ==
    /\ pc = "done"
    /\ \E k \in 1..Len(log) :
          /\ log[k].emitted # 0
          /\ RelationFlags(heap[log[k].cand]) = {"mixed"}
          /\ RelationFlags(heap[log[k].emitted]) = {"inherited", "mixed"}

(***************************************************************************)
(* C2, as stated: a declared member of a listed ancestor is a candidate    *)
(* iff it is not `ignore`, not `undocumented`, its `inheritdoc` is not a   *)
(* non-empty pointer, and it matches options.filter.  Refuted by a member  *)
(* with the empty `inheritdoc` marker, which line 96 excludes.             *)
(***************************************************************************)
ListedMember(i) == InSeq(Ancestors, heap[i].memberof)

PassesFilter(i) == \A kv \in options.filter : heap[i][kv[1]] = kv[2]

C2_CandidateIffNoInheritdocPointer ==
    pc # "start" =>
        \A i \in 1..nStore :
            ListedMember(i) =>
                (InSeq(docletsToAdd, i) <=>
                    /\ ~heap[i].ignore
                    /\ ~heap[i].undocumented
                    /\ ~(heap[i].inheritdoc.type = "string" /\ heap[i].inheritdoc.value # <<>>)
                    /\ PassesFilter(i))

(***************************************************************************)
(* C2, amended: a stored doclet is a candidate iff it is a declared member *)
(* of an ancestor listed in target[relation], is not `ignore`, is not      *)
(* `undocumented`, has no string `inheritdoc` at all (the empty marker     *)
(* excludes it as a pointer does) and matches every field of               *)
(* options.filter; only candidates are iterated, and the two result lists  *)
(* hold nothing but what the iterations of candidates pushed.              *)
(***************************************************************************)
C2_CandidateIffNoInheritdoc ==
    pc # "start" =>
        /\ \A i \in 1..nStore :
              InSeq(docletsToAdd, i) <=>
                  /\ ListedMember(i)
                  /\ ~heap[i].ignore
                  /\ ~heap[i].undocumented
                  /\ heap[i].inheritdoc.type # "string"
                  /\ PassesFilter(i)
        /\ \A k \in 1..Len(docletsToAdd) : docletsToAdd[k] \in 1..nStore
        /\ LogAccounts

\* a static member passed the filter {scope: 'static'} and reached newDoclets
C2_Witness ==
    /\ pc = "done"
    /\ options.filter # {}
    /\ Len(log) = 1
    /\ heap[log[1].cand].scope = "static"
    /\ Len(newDoclets) = 1

(***************************************************************************)
(* C3: for a candidate whose siblings under the target are non-empty and   *)
(* all carry `inheritdoc` or `overrides`, with onlyImplicitlyInherited     *)
(* false, the iteration pushes every sibling to                            *)
(* docletsWhichShouldBeIgnored and exactly one doclet to newDoclets: a     *)
(* fresh copy of the candidate with the longname getLongnameForNewDoclet   *)
(* derives and memberof = the target's longname, equal to the candidate in *)
(* every other field but the relation flags.                               *)
(***************************************************************************)
C3_AllExplicitSiblingsIgnoredCloneAdded ==
    /\ LogAccounts
    /\ \A k \in 1..Len(log) :
          LET e == log[k]
              c == log[k].cand
          IN  AllExplicitCase(c) =>
                /\ e.ignored = SiblingsOf(c)
                /\ e.emitted > nStore
                /\ SameButRelationFlags(
                       heap[e.emitted],
                       [heap[c] EXCEPT
                           !.longname = getLongnameForNewDoclet(heap[c], heap[target]),
                           !.memberof = TargetLongname])

\* two explicit siblings were ignored and the candidate's copy was returned
C3_Witness ==
    /\ pc = "done"
    /\ \E k \in 1..Len(log) :
          /\ AllExplicitCase(log[k].cand)
          /\ Len(SiblingsOf(log[k].cand)) = 2
          /\ Len(docletsWhichShouldBeIgnored) = 2
          /\ Len(newDoclets) = 1

(***************************************************************************)
(* C4: under EXTENDS every doclet of newDoclets has `inherited` = true,    *)
(* under MIXES every one has `mixed` = true, whatever the descendants and  *)
(* kinds in the store and whichever branch emitted it.                     *)
(***************************************************************************)
C4_ExtendsInheritedMixesMixed ==
    /\ options.relation = "augmentsNested" =>
          \A k \in 1..Len(newDoclets) : heap[newDoclets[k]].inherited
    /\ options.relation = "mixesNested" =>
          \A k \in 1..Len(newDoclets) : heap[newDoclets[k]].mixed

\* EXTENDS, the two-or-more branch, and a store whose descendants link the ancestor
\* to the target through a mixin
C4_Witness ==
    /\ pc = "done"
    /\ options.relation = "augmentsNested"
    /\ \E i \in 1..nStore : heap[i].longname = ALong /\ InSeq(heap[i].descendants, MLong)
    /\ \E k \in 1..Len(log) : TwoOrMoreCase(log[k].cand) /\ log[k].emitted # 0

(***************************************************************************)
(* C5: a candidate for which the target declares no doclet of the same     *)
(* name and kind gets a doclet in newDoclets whose memberof is the         *)
(* target's longname, and its iteration pushes nothing to                  *)
(* docletsWhichShouldBeIgnored; at the return every candidate was iterated.*)
(***************************************************************************)
C5_NoSiblingAlwaysAdded ==
    /\ LogAccounts
    /\ \A k \in 1..Len(log) :
          SiblingsOf(log[k].cand) = <<>> =>
              /\ log[k].emitted # 0
              /\ InSeq(newDoclets, log[k].emitted)
              /\ heap[log[k].emitted].memberof = TargetLongname
              /\ log[k].ignored = <<>>

\* the target declares a doclet of the same name but another kind: no sibling
C5_Witness ==
    /\ pc = "done"
    /\ \E k \in 1..Len(log) :
          /\ SiblingsOf(log[k].cand) = <<>>
          /\ \E i \in 1..nStore : /\ heap[i].memberof = TargetLongname
                                    /\ heap[i].name = heap[log[k].cand].name
          /\ InSeq(newDoclets, log[k].emitted)

(***************************************************************************)
(* C6, as stated: every doclet of newDoclets, in every emitting branch,    *)
(* has memberof = the target's longname and the longname                   *)
(* <target longname><separator><name>, the separator being the `.` or `#`  *)
(* that precedes the name in the candidate's longname.  Refuted by the     *)
(* two-or-more branch, which returns a copy of the first sibling: for the  *)
(* instance candidate A#m and the siblings T.m, T#m it returns T.m.        *)
(***************************************************************************)
\* the candidate's longname ends with `.` or `#` and then its name
HasSeparator(c) ==
    LET l == heap[c].longname
        n == heap[c].name
    IN  /\ Len(l) > Len(n)
        /\ SubSeq(l, Len(l) - Len(n) + 1, Len(l)) = n
        /\ l[Len(l) - Len(n)] \in {".", "#"}

SeparatorOf(c) == heap[c].longname[Len(heap[c].longname) - Len(heap[c].name)]

C6_LongnameFromCandidateInEveryBranch ==
    \A k \in 1..Len(log) :
        (log[k].emitted # 0 /\ HasSeparator(log[k].cand)) =>
            /\ heap[log[k].emitted].memberof = TargetLongname
            /\ heap[log[k].emitted].longname =
                   TargetLongname \o <<SeparatorOf(log[k].cand)>> \o heap[log[k].cand].name

(***************************************************************************)
(* C6, amended: every doclet of newDoclets has memberof = the target's     *)
(* longname; one emitted by the no-sibling or the all-explicit branch has  *)
(* the longname <target longname><separator><name> with the candidate's    *)
(* separator, and the one emitted by the two-or-more branch keeps the      *)
(* longname of the first sibling, whatever the candidate's separator is.   *)
(***************************************************************************)
C6_LongnameFromCandidateOrFirstSibling ==
    /\ LogAccounts
    /\ \A k \in 1..Len(log) :
          LET e == log[k]
              c == log[k].cand
          IN  e.emitted # 0 =>
                /\ heap[e.emitted].memberof = TargetLongname
                /\ (~TwoOrMoreCase(c) /\ HasSeparator(c)) =>
                       heap[e.emitted].longname =
                           TargetLongname \o <<SeparatorOf(c)>> \o heap[c].name
                /\ TwoOrMoreCase(c) =>
                       heap[e.emitted].longname = heap[SiblingsOf(c)[1]].longname

\* the static candidate A.m, no sibling: T.m is returned
C6_Witness ==
    /\ pc = "done"
    /\ \E k \in 1..Len(log) :
          /\ log[k].emitted # 0
          /\ ~TwoOrMoreCase(log[k].cand)
          /\ heap[log[k].cand].longname = <<"A", ".", "m">>
          /\ heap[log[k].emitted].longname = <<"T", ".", "m">>
          /\ InSeq(newDoclets, log[k].emitted)

(***************************************************************************)
(* C7, as stated: for a candidate whose longname contains neither `.` nor  *)
(* `#` the name suffix is empty, so the synthesized longname is the        *)
(* target's longname unchanged.  Refuted: both lastIndexOf give -1 and     *)
(* slice( -1 ) is the last character.                                      *)
(***************************************************************************)
NoSeparator(c) ==
    \A p \in 1..Len(heap[c].longname) : heap[c].longname[p] \notin {".", "#"}

C7_NoSeparatorEmptySuffix ==
    \A k \in 1..Len(log) :
        (log[k].emitted # 0 /\ ~TwoOrMoreCase(log[k].cand) /\ NoSeparator(log[k].cand)) =>
            heap[log[k].emitted].longname = TargetLongname

(***************************************************************************)
(* C7, amended: for a candidate whose (non-empty) longname contains        *)
(* neither `.` nor `#` the name suffix is the last character of that       *)
(* longname, so the synthesized longname is the target's longname followed *)
(* by that character.                                                      *)
(***************************************************************************)
C7_NoSeparatorLastCharacterSuffix ==
    \A k \in 1..Len(log) :
        LET c == log[k].cand
        IN  (log[k].emitted # 0 /\ ~TwoOrMoreCase(c) /\ NoSeparator(c)) =>
                heap[log[k].emitted].longname =
                    TargetLongname \o <<heap[c].longname[Len(heap[c].longname)]>>

\* the candidate A~m was copied to newDoclets
C7_Witness ==
    /\ pc = "done"
    /\ \E k \in 1..Len(log) :
          /\ log[k].emitted # 0
          /\ ~TwoOrMoreCase(log[k].cand)
          /\ heap[log[k].cand].longname = <<"A", "~", "m">>
          /\ InSeq(newDoclets, log[k].emitted)

(***************************************************************************)
(* C8: getMissingDocletsData never raises an error, also when the entity   *)
(* named by a candidate's memberof is not in the store under IMPLEMENTS.   *)
(* Refuted by the code: line 152 reads `descendants` of undefined.         *)
(***************************************************************************)
C8_NeverRaises == pc # "threw"

(***************************************************************************)
(* C9: a call leaves the store and every stored doclet unchanged; every    *)
(* doclet of newDoclets is a fresh object, distinct from the stored ones   *)
(* and from one another; docletsWhichShouldBeIgnored holds stored doclets  *)
(* only, and no step sets their `ignore` flag.                             *)
(***************************************************************************)
ResultFresh ==
    /\ \A k \in 1..Len(newDoclets) :
          /\ newDoclets[k] \in (nStore + 1)..Len(heap)
          /\ \A j \in 1..Len(newDoclets) : newDoclets[j] = newDoclets[k] => j = k
    /\ \A k \in 1..Len(docletsWhichShouldBeIgnored) :
          docletsWhichShouldBeIgnored[k] \in 1..nStore

StoreUnchanged ==
    /\ nStore' = nStore
    /\ Len(heap') >= nStore
    /\ \A i \in 1..nStore : heap'[i] = heap[i]

Executed(cmd) == {i \in 1..Len(executed) : executed[i].cmd = cmd}

\* the packages selected for a release on npm, regular and empty
SelectedForNpm ==
    Range(releasesOnNpm)
    \cup {emptyReleasesOnNpm[k].repositoryPath : k \in 1..Len(emptyReleasesOnNpm)}

\* C10: `git push` is executed only after `npm publish` has finished for every package
\* selected for a release on npm, regular or empty; no `npm publish` is executed after
\* the push; the GitHub release is created only after the push.
C10_PushAfterNpmBeforeGitHubRelease ==
    /\ \A i \in Executed("git push") :
          /\ \A path \in SelectedForNpm :
                /\ path \in releasedPackages
                /\ \E j \in Executed("npm publish") : j < i /\ executed[j].at = path
          /\ \A j \in Executed("npm publish") : j < i
    /\ \A k \in Executed("createGithubRelease") :
          \E i \in Executed("git push") : i < k

\* a finished run that published an empty and a regular release on npm, pushed and
\* created the GitHub release
C10_Witness ==
    /\ rpc = "resolved"
    /\ emptyReleasesOnNpm # <<>>
    /\ releasesOnNpm # <<>>
    /\ Cardinality(Executed("npm publish")) = Len(emptyReleasesOnNpm) + Len(releasesOnNpm)
    /\ Executed("git push") # {}
    /\ Executed("createGithubRelease") # {}

(***************************************************************************)
(* releaseSubRepositories: the dry run.                                    *)
(***************************************************************************)
\* the last command executed, if any, is `cmd`
LastExecuted(cmd) == executed # <<>> /\ executed[Len(executed)].cmd = cmd

\* C11: when options.dryRun is true, whatever the user answers and whether logged in
\* or not, `npm publish` and `git push` are never executed and createGithubRelease is
\* never called: every package selected for npm is packed with `npm pack` instead, and
\* the push and the release are replaced by a log line each.
C11_DryRunPublishesNothing ==
    dryRun =>
        /\ Executed("npm publish") = {}
        /\ Executed("git push") = {}
        /\ Executed("createGithubRelease") = {}
        /\ rpc = "pushPackages" =>
              \A path \in SelectedForNpm :
                 \E j \in Executed("npm pack") : executed[j].at = path
        /\ rpc = "createReleasesOnGitHub" => LastExecuted("logDryRun git push")
        /\ (rpc = "removeTemporaryDirectories" /\ releaseOptions.github) =>
              LastExecuted("logDryRun release url")

\* a finished dry run of a user who is not logged in, chose npm and GitHub and
\* confirmed: a package was packed, the push and the release were logged
C11_Witness ==
    /\ dryRun
    /\ ~loggedIn
    /\ rpc = "resolved"
    /\ confirmed
    /\ Executed("npm pack") # {}
    /\ Executed("logDryRun git push") # {}
    /\ Executed("logDryRun release url") # {}

(***************************************************************************)
(* releaseSubRepositories: nothing is published without the confirmation.  *)
(***************************************************************************)
PublishingCommands == {"npm publish", "npm pack", "mkdtemp", "git push", "createGithubRelease"}

\* the positions of the publishing actions among the commands executed so far
Published == {i \in 1..Len(executed) : executed[i].cmd \in PublishingCommands}

\* no publishing action was executed, no failure exit code is set and the working
\* directory is the one the task started in
EndedQuietly == Published = {} /\ exitCode = 0 /\ processCwd = StartCwd

\* the user selected neither npm nor GitHub
SelectedNothing == ~releaseOptions.npm /\ ~releaseOptions.github

\* confirmRelease found no package with a version to release
NothingToRelease == err = NO_RELEASE_MESSAGE

\* the user selected a target and declined the confirmation
Declined == ~SelectedNothing /\ ~confirmed /\ err = BREAK_RELEASE_MESSAGE

\* C12 as stated: no publishing action is executed unless the user confirmed in
\* confirmRelease beforehand; when the user selects neither npm nor GitHub, is not
\* logged in to npm outside dry-run mode, no package has a version to release, or the
\* user declines, the run ends with no publishing action executed, without a failure
\* exit code and with the working directory restored.
C12_AbortWheneverNotLoggedIn ==
    /\ Published # {} => confirmed
    /\ rpc = "resolved" =>
          /\ SelectedNothing => EndedQuietly
          /\ (~loggedIn /\ ~dryRun) => EndedQuietly
          /\ NothingToRelease => EndedQuietly
          /\ Declined => EndedQuietly

\* C12, amended: the same, but the npm login only matters when the user selected
\* npm: authCheck does not look at it otherwise, and a GitHub-only release of a user
\* who is not logged in to npm goes on.
C12_AbortWhenNpmSelectedNotLoggedIn ==
    /\ Published # {} => confirmed
    /\ rpc = "resolved" =>
          /\ SelectedNothing => EndedQuietly
          /\ (releaseOptions.npm /\ ~loggedIn /\ ~dryRun) =>
                (err = AUTH_REQUIRED /\ EndedQuietly)
          /\ NothingToRelease => EndedQuietly
          /\ Declined => EndedQuietly

\* a finished run where the user was asked to confirm the release of a package on
\* npm and declined
C12_Witness ==
    /\ rpc = "resolved"
    /\ Declined
    /\ releaseOptions.npm
    /\ releasesOnNpm # <<>>
    /\ EndedQuietly

(***************************************************************************)
(* getMissingDocletsData: two or more siblings, not all of them explicit.  *)
(***************************************************************************)
\* the doclet d2 with the relation tag `tag` set to true and nothing else changed
WithTag(d2, tag) == [d2 EXCEPT ![tag] = TRUE]

\* C13: for a candidate with two or more siblings of its name and kind under the
\* target where the all-explicit branch did not apply, the iteration pushes every
\* sibling to docletsWhichShouldBeIgnored and exactly one doclet to newDoclets: a fresh
\* copy of the first sibling (store order) with the relation tag, `inherited` or
\* `mixed`, set to true and no other field added or changed; the candidate's own copy
\* is not emitted.
C13_TwoOrMoreEmitsTaggedCopyOfFirstSibling ==
    /\ LogAccounts
    /\ \A k \in 1..Len(log) :
          LET e == log[k]
              c == log[k].cand
          IN  TwoOrMoreCase(c) =>
                /\ e.ignored = SiblingsOf(c)
                /\ e.emitted > nStore
                /\ \E tag \in {"inherited", "mixed"} :
                      heap[e.emitted] = WithTag(heap[SiblingsOf(c)[1]], tag)

(***************************************************************************)
(* getMissingDocletsData: a single sibling that is not explicit.           *)
(***************************************************************************)
SingleImplicitSiblingCase(c) ==
    /\ Len(SiblingsOf(c)) = 1
    /\ ~Explicit(SiblingsOf(c)[1])

\* C14: for a candidate with exactly one sibling of its name and kind under the
\* target that carries neither `inheritdoc` nor `overrides`, the iteration pushes
\* nothing to newDoclets and nothing to docletsWhichShouldBeIgnored, whatever
\* options.onlyImplicitlyInherited and the relation are.
C14_SingleImplicitSiblingNoAction ==
    /\ LogAccounts
    /\ \A k \in 1..Len(log) :
          SingleImplicitSiblingCase(log[k].cand) =>
            /\ log[k].emitted = 0
            /\ log[k].ignored = <<>>
            /\ log[k].branch = "singleSibling"

\* a finished call whose only candidate met a single sibling without markers and
\* that returned two empty lists
C14_Witness ==
    /\ pc = "done"
    /\ Len(log) = 1
    /\ SingleImplicitSiblingCase(log[1].cand)
    /\ newDoclets = <<>>
    /\ docletsWhichShouldBeIgnored = <<>>

(***************************************************************************)
(* getMissingDocletsData: the relation tag under IMPLEMENTS.               *)
(***************************************************************************)
\* the stored doclet the doclet map holds for a longname: the first of that longname
MapsTo(longname, i) ==
    /\ i \in 1..nStore
    /\ heap[i].longname = longname
    /\ \A j \in 1..(i - 1) : heap[j].longname # longname

\* some descendant of the doclet at c.memberof is of that kind and has the target's
\* longname among its own descendants
Qualifying(c, kind) ==
    \E p \in 1..nStore, i \in 1..nStore :
        /\ MapsTo(heap[c].memberof, p)
        /\ \E k \in 1..Len(heap[p].descendants) : MapsTo(heap[p].descendants[k], i)
        /\ heap[i].kind = kind
        /\ InSeq(heap[i].descendants, TargetLongname)

\* the relation flags of the doclet an iteration emitted are those of the doclet it
\* copied and the given ones
EmittedFlags(e, tags) ==
    RelationFlags(heap[e.emitted]) = RelationFlags(heap[ClonedFrom(e)]) \cup tags

\* C15: under IMPLEMENTS the relation tag of a candidate whose iteration finished
\* (the doclet at candidate.memberof exists) is decided from the descendants of that
\* doclet: `mixed` if some descendant is a mixin whose own descendants contain the
\* target's longname, otherwise `inherited` if some descendant is such a class,
\* otherwise no tag; with both a qualifying mixin and a qualifying class the tag is
\* `mixed`, whatever their order in the descendants list.
C15_ImplementsMixedWinsOverInherited ==
    /\ LogAccounts
    /\ options.relation = "implementsNested" =>
          \A k \in 1..Len(log) :
             LET e == log[k]
                 c == log[k].cand
             IN  e.emitted # 0 =>
                   IF Qualifying(c, "mixin") THEN EmittedFlags(e, {"mixed"})
                   ELSE IF Qualifying(c, "class") THEN EmittedFlags(e, {"inherited"})
                   ELSE EmittedFlags(e, {})

\* the ancestor lists a qualifying class before a qualifying mixin, and the doclet
\* emitted for an unflagged candidate is tagged `mixed` and not `inherited`
C15_Witness ==
    /\ options.relation = "implementsNested"
    /\ pc = "done"
    /\ \E k \in 1..Len(log) :
          /\ log[k].emitted # 0
          /\ Qualifying(log[k].cand, "mixin")
          /\ Qualifying(log[k].cand, "class")
          /\ \E p \in 1..nStore :
                /\ MapsTo(heap[log[k].cand].memberof, p)
                /\ heap[p].descendants = <<CLong, MLong>>
          /\ RelationFlags(heap[ClonedFrom(log[k])]) = {}
          /\ RelationFlags(heap[log[k].emitted]) = {"mixed"}

(***************************************************************************)
(* releaseSubRepositories: publishing is filtered by the versions.         *)
(***************************************************************************)
\* C16: a package is published on npm only if its package.json version differs from
\* the latest version on npm, and a GitHub release is created for the main repository
\* only if its package.json version differs from the latest GitHub release tag, i.e.
\* only if filterPackagesToReleaseOnGitHub added it to releasesOnGithub: a repository
\* whose GitHub release is up to date never gets a release created.
C16_PublishedOnlyWhenVersionDiffers ==
    /\ \A j \in Executed("npm publish") \cup Executed("npm pack") :
          /\ packages[executed[j].at.repo].shouldReleaseOnNpm
          /\ packages[executed[j].at.repo].npmVersion
                # packages[executed[j].at.repo].version
    /\ \A k \in Executed("createGithubRelease") :
          /\ executed[k].at \in releasesOnGithub
          /\ packages[executed[k].at.repo].githubVersion
                # packages[executed[k].at.repo].version

====
